---- MODULE Spec2Model ----
(***************************************************************************)
(* Model of CGAL::Classification::Point_set_neighborhood                   *)
(* (Classification/include/CGAL/Classification/Point_set_neighborhood.h).  *)
(*                                                                         *)
(* A neighborhood is constructed once over an input range of points,       *)
(* either over all indices 0..N-1 or over the representatives chosen by    *)
(* voxelize_point_set, and is then asked k-nearest-neighbour and fixed     *)
(* radius queries through its two query functors.                          *)
(*                                                                         *)
(* Points are triples of integers <<x, y, z>>.  Indices are 0-based as in  *)
(* the code; TLA+ sequences are 1-based, so element i of a C++ vector v is *)
(* v[i + 1].  A std::size_t count k is kept as the pair of its 32-bit      *)
(* halves, k = hi * 2^32 + lo, so that the narrowing (unsigned int)k of    *)
(* k_neighbors keeps its width.                                            *)
(*                                                                         *)
(* Kd_tree, Orthogonal_k_neighbor_search, Fuzzy_sphere, CGAL::centroid,    *)
(* CGAL::squared_distance and the ordering of Point_3 are not part of the  *)
(* header; they are modelled from their specified behaviour.               *)
(***************************************************************************)
EXTENDS Integers, Sequences, FiniteSets, TLC

(***************************************************************************)
(* Bounds of the model.                                                    *)
(***************************************************************************)
\* Largest number of elements of the input range.
MaxPoints == 3
\* Radii of the range queries range over 0 .. MaxRadius.
MaxRadius == 1
\* Largest magnitude the specification's integer voxel key type can hold,
\* scaled to the coordinates of the model (the header has no such type).
KeyTypeMax == 1

\* The points an input range may hold: four on the x axis, on both sides of
\* the origin, one off it in y and one off it in z.
Points ==
  {<<x, 0, 0>> : x \in {-2, -1, 0, 2}} \cup {<<0, 1, 0>>, <<0, 0, 1>>}
\* The input ranges: every sequence of at most MaxPoints points.
InputRanges == UNION {[1 .. n -> Points] : n \in 0 .. MaxPoints}
\* The query points.
QueryPoints == {<<0, 0, 0>>, <<1, 0, 1>>}
\* The voxel sizes handed to the simplifying constructor (never zero:
\* dividing by zero gives infinite and NaN keys, for which the ordering of
\* the std::map is undefined).
VoxelSizes == {-2, 1, 2}
\* The counts k handed to k_neighbor_query: 1 .. MaxPoints + 1, and
\* 2^32 + 1.  The search requires a count of at least 1, so no k whose low
\* half is 0 is drawn.
KValues ==
  {[hi |-> 0, lo |-> n] : n \in 1 .. MaxPoints + 1} \cup {[hi |-> 1, lo |-> 1]}
\* The radii handed to range_neighbor_query.
Radii == 0 .. MaxRadius

\* The null pointer (m_tree before a tree is allocated).
NULL == [null |-> TRUE]
\* What running CGAL_assertion (m_tree != NULL) and then dereferencing m_tree
\* can come to when m_tree is NULL: the assertion fails where assertions are
\* compiled in, and the null pointer is dereferenced where they are not.
NullTreeOutcomes == {"AssertionFailed", "NullDereference"}
\* The threads that call the query functors of one neighborhood.
Callers == {1, 2}
\* A caller that has not called a functor.
NoCall == [pc |-> "idle"]
\* No second neighborhood.
NoTwin == [m_tree |-> NULL, query |-> [kind |-> "none"], output |-> <<>>]
\* The largest finite double, standing above every distance of the model.
DBL_MAX == 2147483647

VARIABLES
  input,       \* the caller's input range: a sequence of points
  ctor,        \* which constructor built the object: "none", "default",
               \* "full", "voxel"
  voxel_size,  \* the voxel_size argument of the voxel constructor (0: none)
  grid,        \* the value of voxelize_point_set's local map when it returns
  m_tree,      \* NULL, or the tree: the indices it was built over
  query,       \* the last query: its kind, point, parameter
  output,      \* what the last query wrote to its output iterator
  reported,    \* the status or error the last operation surfaced
  calls,       \* per caller, the call of a query functor it has in flight
  twin,        \* a second neighborhood constructed from the same arguments
  \* The Viewer objects of Polyhedron/demo/Polyhedron/Viewer.cpp:
  isAset,                 \* the static local isAset of Viewer::showDistance
  is_d_pressed,           \* per Viewer, its member is_d_pressed
  i_is_pressed,           \* per Viewer, its member i_is_pressed
  distance_is_displayed,  \* per Viewer, its member distance_is_displayed
  distance_text,          \* per Viewer, its list distance_text of TextItems
  APoint,                 \* per Viewer, its member APoint
  shader_programs,        \* per Viewer, d->shader_programs: name -> program
  returned,               \* the last call of getShaderProgram and its result
  last_hit,               \* history: per Viewer, the last click showDistance
                          \* found a point under, and whether it displayed
  created,                \* history: per Viewer and name, programs created
  d_key_down              \* history: per Viewer, whether the last key event
                          \* of D that was no auto-repeat was a press

\* The variables of the Viewer objects.
viewer_vars ==
  <<isAset, is_d_pressed, i_is_pressed, distance_is_displayed, distance_text,
    APoint, shader_programs, returned, last_hit, created, d_key_down>>

vars ==
  <<input, ctor, voxel_size, grid, m_tree, query, output, reported, calls, twin,
    viewer_vars>>

(***************************************************************************)
(* My_point_property_map and the index ranges.                             *)
(***************************************************************************)
\* My_point_property_map::operator[]: the point of element k of the input.
get(k) == input[k + 1]

\* A counting range that stops one short: 0 .. n-2.
counting_range_short(n) == [i \in 1 .. n - 1 |-> i - 1]

\* boost::counting_iterator 0 .. n-1, and the loop indices[i] = i.
counting_range(n) == [i \in 1 .. n |-> i - 1]

\* The elements of a sequence, as a set.
Range(s) == {s[i] : i \in DOMAIN s}

(***************************************************************************)
(* voxelize_point_set.                                                     *)
(***************************************************************************)
\* c / voxel_size rounded toward zero, as a conversion to an integer rounds.
floor_div_truncating(c, size) ==
  LET a == IF size > 0 THEN c ELSE 0 - c
      b == IF size > 0 THEN size ELSE 0 - size
  IN  IF a >= 0 THEN a \div b ELSE 0 - ((0 - a) \div b)

\* std::floor(c / voxel_size) for a coordinate c and a non-zero size.
floor_div(c, size) ==
  IF size > 0 THEN c \div size ELSE (0 - c) \div (0 - size)

\* Point ref (p.x(), p.y(), p.z()): the division by voxel_size left out.
voxel_ref_undivided(p, size) == <<p[1], p[2], p[3]>>

\* A floor value converted to a signed integer key type that holds
\* -KeyTypeMax - 1 .. KeyTypeMax, wrapping around.
key_wrap(n) ==
  ((n + KeyTypeMax + 1) % (2 * KeyTypeMax + 2)) - (KeyTypeMax + 1)

\* Point ref with every floor value converted to the integer key type.
voxel_ref_wrapped(p, size) ==
  <<key_wrap(floor_div(p[1], size)), key_wrap(floor_div(p[2], size)),
    key_wrap(floor_div(p[3], size))>>

\* Point ref (floor(p.x() / voxel_size), floor(p.y() / ...), floor(p.z() / ...)).
voxel_ref(p, size) ==
  <<floor_div(p[1], size), floor_div(p[2], size), floor_div(p[3], size)>>

\* The first loop: grid maps each occupied ref to the indices pushed to it,
\* in the order of the loop.
build_grid(indices, size) ==
  LET refs == {voxel_ref(get(indices[i]), size) : i \in DOMAIN indices}
  IN  [ref \in refs |->
         SelectSeq(indices, LAMBDA ix : voxel_ref(get(ix), size) = ref)]

\* operator< of Point_3: lexicographic on x, y, z (the order of the map).
less_xyz(a, b) ==
  \/ a[1] < b[1]
  \/ a[1] = b[1] /\ a[2] < b[2]
  \/ a[1] = b[1] /\ a[2] = b[2] /\ a[3] < b[3]

\* The keys of a std::map from begin() to end().
RECURSIVE map_order(_)
map_order(keys) ==
  IF keys = {} THEN <<>>
  ELSE LET first == CHOOSE a \in keys : \A b \in keys \ {a} : less_xyz(a, b)
       IN  <<first>> \o map_order(keys \ {first})

\* The sum of coordinate c over the points of the indices pts.
RECURSIVE coord_sum(_, _)
coord_sum(pts, c) ==
  IF pts = <<>> THEN 0 ELSE get(Head(pts))[c] + coord_sum(Tail(pts), c)

\* CGAL::centroid of the points of pts: the arithmetic mean, kept as the
\* exact fraction sum / n.
centroid(pts) ==
  [sum |-> <<coord_sum(pts, 1), coord_sum(pts, 2), coord_sum(pts, 3)>>,
   n   |-> Len(pts)]

\* CGAL::squared_distance(p, c) for a centroid c = sum / n, times n * n
\* (one n for every comparison within a group).
squared_distance_to_centroid(p, c) ==
  LET d(k) == c.n * p[k] - c.sum[k]
  IN  d(1) * d(1) + d(2) * d(2) + d(3) * d(3)

\* The test of the selection loop with <= in place of <.
closer_or_equal(dist, min_dist) == dist <= min_dist

\* The test of the selection loop.
closer(dist, min_dist) == dist < min_dist

\* The selection loop without the assignment min_dist = dist.
RECURSIVE select_from_stale_min(_, _, _, _, _)
select_from_stale_min(pts, c, i, chosen, min_dist) ==
  IF i > Len(pts) THEN chosen
  ELSE LET dist == squared_distance_to_centroid(get(pts[i]), c)
       IN  IF closer(dist, min_dist)
           THEN select_from_stale_min(pts, c, i + 1, pts[i], min_dist)
           ELSE select_from_stale_min(pts, c, i + 1, chosen, min_dist)

\* The selection loop, from position i of pts on, with the values chosen and
\* min_dist have when it gets there.
RECURSIVE select_from(_, _, _, _, _)
select_from(pts, c, i, chosen, min_dist) ==
  IF i > Len(pts) THEN chosen
  ELSE LET dist == squared_distance_to_centroid(get(pts[i]), c)
       IN  IF closer(dist, min_dist)
           THEN select_from(pts, c, i + 1, pts[i], dist)
           ELSE select_from(pts, c, i + 1, chosen, min_dist)

\* The second loop without its selection: chosen stays 0 for every cell.
choose_representative_unselected(pts) == 0

\* The body of the second loop for one cell: chosen = 0, min_dist = max().
choose_representative(pts) ==
  select_from(pts, centroid(pts), 1, 0, DBL_MAX)

\* voxelize_point_set: the value of indices when it returns.
voxelize_point_set(indices, size) ==
  LET g == build_grid(indices, size)
      order == map_order(DOMAIN g)
  IN  [n \in 1 .. Len(order) |-> choose_representative(g[order[n]])]

(***************************************************************************)
(* The spatial index and its two searches.                                 *)
(***************************************************************************)
\* The squared Euclidean distance of two points (Euclidean_distance's
\* transformed distance).
transformed_distance(p, q) ==
  (p[1] - q[1]) * (p[1] - q[1]) + (p[2] - q[2]) * (p[2] - q[2])
    + (p[3] - q[3]) * (p[3] - q[3])

\* new Tree (first, beyond, Splitter(), Search_traits (pmap)) and build():
\* a tree over the given indices.
Tree(indices) == [pts |-> indices]

\* knn_before preferring, of two equidistant indices, the higher.
knn_before_higher(i, j, q, search_nearest) ==
  LET di == transformed_distance(get(i), q)
      dj == transformed_distance(get(j), q)
  IN  IF search_nearest THEN di < dj \/ (di = dj /\ i > j)
      ELSE dj < di \/ (di = dj /\ i > j)

\* Whether index i comes before index j in the result of a search for the
\* nearest to q: nearer first, and of two equidistant ones the lower index
\* first.  A search for the furthest puts the farther first.
knn_before(i, j, q, search_nearest) ==
  LET di == transformed_distance(get(i), q)
      dj == transformed_distance(get(j), q)
  IN  IF search_nearest THEN di < dj \/ (di = dj /\ i < j)
      ELSE dj < di \/ (di = dj /\ i < j)

\* Orthogonal_k_neighbor_search (tree, q, k, 0, search_nearest, distance) over
\* the indices S of the tree: the k nearest to q (all of S when it has
\* fewer), as (index, distance) pairs from begin() to end().
RECURSIVE Knn(_, _, _, _)
Knn(S, q, k, search_nearest) ==
  IF k = 0 \/ S = {} THEN <<>>
  ELSE LET i == CHOOSE a \in S :
                  \A b \in S \ {a} : knn_before(a, b, q, search_nearest)
       IN  <<[first |-> i, second |-> transformed_distance(get(i), q)]>>
             \o Knn(S \ {i}, q, k - 1, search_nearest)

\* Fuzzy_sphere (center, radius, epsilon, traits).
Sphere(center, radius, epsilon) ==
  [center |-> center, radius |-> radius, epsilon |-> epsilon]

\* Whether a point lies in a fuzzy sphere of epsilon 0: the closed ball.
sphere_contains(fs, p) ==
  transformed_distance(fs.center, p) <= fs.radius * fs.radius

\* Kd_tree::search (output, fs): every index of the tree whose point the
\* sphere contains, in the order of the tree.
tree_search(tree, fs) ==
  SelectSeq(tree.pts, LAMBDA i : sphere_contains(fs, get(i)))

(***************************************************************************)
(* The private queries of Point_set_neighborhood.                          *)
(***************************************************************************)
\* (unsigned int)k for a std::size_t k = hi * 2^32 + lo.
unsigned_int(k) == k.lo

\* Sphere fs (query, 0, radius_neighbors, ...): the radius and the epsilon
\* in each other's place.
range_neighbors_swapped(q, radius_neighbors) ==
  tree_search(m_tree, Sphere(q, 0, radius_neighbors))

\* range_neighbors: what it writes to output.
range_neighbors(q, radius_neighbors) ==
  tree_search(m_tree, Sphere(q, radius_neighbors, 0))

\* k_neighbors with search_nearest false: the furthest are searched.
k_neighbors_furthest(q, k) ==
  LET search == Knn(Range(m_tree.pts), q, unsigned_int(k), FALSE)
  IN  [it \in 1 .. Len(search) |-> search[it].first]

\* k_neighbors walking the search from its last element to its first.
k_neighbors_backwards(q, k) ==
  LET search == Knn(Range(m_tree.pts), q, unsigned_int(k), TRUE)
  IN  [it \in 1 .. Len(search) |-> search[Len(search) + 1 - it].first]

\* k_neighbors writing it->second, the distance, in place of the index.
k_neighbors_distances(q, k) ==
  LET search == Knn(Range(m_tree.pts), q, unsigned_int(k), TRUE)
  IN  [it \in 1 .. Len(search) |-> search[it].second]

\* k_neighbors writing search.begin()->first at every turn of its loop.
k_neighbors_first_only(q, k) ==
  LET search == Knn(Range(m_tree.pts), q, unsigned_int(k), TRUE)
  IN  [it \in 1 .. Len(search) |-> search[1].first]

\* k_neighbors: what it writes to output, it->first for every it of search.
k_neighbors(q, k) ==
  LET search == Knn(Range(m_tree.pts), q, unsigned_int(k), TRUE)
  IN  [it \in 1 .. Len(search) |-> search[it].first]

(***************************************************************************)
(* The Viewer objects (Polyhedron/demo/Polyhedron/Viewer.cpp): what their  *)
(* events carry and the state their constructor leaves.                    *)
(***************************************************************************)
\* The Viewer objects of the application.
Viewers == {1, 2}
\* The keys of the key events: of the ones keyPressEvent and keyReleaseEvent
\* name, D and I (T, M and A act on the camera and the axis only).
Keys == {"Key_D", "Key_I"}
\* The modifiers of an event: none, or Shift.
Modifiers == {"NoModifier", "ShiftModifier"}
\* The buttons of a mouse press.
Buttons == {"LeftButton", "RightButton"}
\* The points of the scene camera()->pointUnderPixel can find.
ScenePoints == {<<1, 0, 0>>, <<0, 2, 0>>}
\* A default-constructed qglviewer::Vec.
VecZero == <<0, 0, 0>>
\* What pointUnderPixel gives for the pixel of a click: found and the point
\* under the pixel, or found = false.
Hits ==
  {[found |-> TRUE, point |-> p] : p \in ScenePoints}
    \cup {[found |-> FALSE, point |-> VecZero]}
\* Most TextItems the model lets distance_text hold.
MaxTextItems == 6
\* No more than this many programs are created for one name of one Viewer.
MaxCreated == 2

\* The program names getShaderProgram knows: the case labels of its switch.
ProgramNames ==
  {"PROGRAM_C3T3", "PROGRAM_C3T3_EDGES", "PROGRAM_WITH_LIGHT",
   "PROGRAM_WITHOUT_LIGHT", "PROGRAM_NO_SELECTION", "PROGRAM_WITH_TEXTURE",
   "PROGRAM_PLANE_TWO_FACES", "PROGRAM_WITH_TEXTURED_EDGES",
   "PROGRAM_INSTANCED", "PROGRAM_INSTANCED_WIRE", "PROGRAM_CUTPLANE_SPHERES",
   "PROGRAM_SPHERES"}
\* The names getShaderProgram is called with: three it knows and one it
\* does not.
CalledNames ==
  {"PROGRAM_C3T3", "PROGRAM_WITH_LIGHT", "PROGRAM_SPHERES", "NB_OF_PROGRAMS"}
\* No call of getShaderProgram yet.
NoReturn == [name |-> "none"]
\* No click that found a point yet.
NoHit == [clicked |-> FALSE]

\* Viewer::Viewer for every Viewer, and the static isAset before the first
\* call of showDistance.
ViewerInit ==
  /\ isAset = FALSE
  /\ is_d_pressed = [v \in Viewers |-> FALSE]
  /\ i_is_pressed = [v \in Viewers |-> FALSE]
  /\ distance_is_displayed = [v \in Viewers |-> FALSE]
  /\ distance_text = [v \in Viewers |-> <<>>]
  /\ APoint = [v \in Viewers |-> VecZero]
  /\ shader_programs = [v \in Viewers |-> [name \in ProgramNames |-> NULL]]
  /\ returned = NoReturn
  /\ last_hit = [v \in Viewers |-> NoHit]
  /\ created = [v \in Viewers |-> [name \in ProgramNames |-> 0]]
  /\ d_key_down = [v \in Viewers |-> FALSE]

(***************************************************************************)
(* The state after the caller has filled its input range and before it     *)
(* constructs the neighborhood.                                            *)
(***************************************************************************)
\* A std::map with no entries.
EmptyMap == [ref \in {} |-> <<>>]

Init ==
  /\ input \in InputRanges
  /\ ctor = "none"
  /\ voxel_size = 0
  /\ grid = EmptyMap
  /\ m_tree = NULL
  /\ query = [kind |-> "none"]
  /\ output = <<>>
  /\ reported = "none"
  /\ calls = [c \in Callers |-> NoCall]
  /\ twin = NoTwin
  /\ ViewerInit

(***************************************************************************)
(* The constructors.                                                       *)
(***************************************************************************)
\* Point_set_neighborhood (): m_tree (NULL).
ConstructDefault ==
  /\ ctor = "none"
  /\ ctor' = "default"
  /\ m_tree' = NULL
  /\ reported' = "none"
  /\ UNCHANGED <<input, voxel_size, grid, query, output, calls, twin,
                 viewer_vars>>

\* Point_set_neighborhood (input, point_map).
Construct ==
  /\ ctor = "none"
  /\ ctor' = "full"
  /\ m_tree' = Tree(counting_range(Len(input)))
  /\ reported' = "none"
  /\ UNCHANGED <<input, voxel_size, grid, query, output, calls, twin,
                 viewer_vars>>

\* The voxel constructor rejecting a non-positive voxel_size.
ConstructVoxel_checked(size) ==
  /\ ctor = "none"
  /\ ctor' = "voxel"
  /\ voxel_size' = size
  /\ IF size <= 0
     THEN /\ reported' = "InvalidVoxelSize"
          /\ UNCHANGED <<grid, m_tree>>
     ELSE /\ grid' = build_grid(counting_range(Len(input)), size)
          /\ m_tree' = Tree(voxelize_point_set(counting_range(Len(input)), size))
          /\ reported' = "none"
  /\ UNCHANGED <<input, query, output, calls, twin, viewer_vars>>

\* Point_set_neighborhood (input, point_map, voxel_size).
ConstructVoxel(size) ==
  /\ ctor = "none"
  /\ ctor' = "voxel"
  /\ voxel_size' = size
  /\ grid' = build_grid(counting_range(Len(input)), size)
  /\ m_tree' = Tree(voxelize_point_set(counting_range(Len(input)), size))
  /\ reported' = "none"
  /\ UNCHANGED <<input, query, output, calls, twin, viewer_vars>>

(***************************************************************************)
(* The query functors: neighborhood.k_neighbor_query (k) (q, output) and   *)
(* neighborhood.range_neighbor_query (radius) (q, output).                 *)
(***************************************************************************)
\* The k-NN functor reporting a status when the tree holds fewer than k.
KNeighborQuery_underfull(k, q) ==
  /\ ctor # "none"
  /\ IF m_tree = NULL
     THEN /\ reported' \in NullTreeOutcomes
          /\ UNCHANGED <<query, output>>
     ELSE /\ query' = [kind |-> "knn", point |-> q, k |-> k]
          /\ output' = k_neighbors(q, k)
          /\ reported' = IF k.hi > 0 \/ k.lo > Len(m_tree.pts)
                         THEN "UnderfullResult" ELSE "none"
  /\ UNCHANGED <<input, ctor, voxel_size, grid, m_tree, calls, twin,
                 viewer_vars>>

\* K_neighbor_query (neighborhood, k) and its operator(), on an object any
\* public constructor has built.  On a NULL m_tree the call does not come
\* back with a result: nothing is written.
KNeighborQuery(k, q) ==
  /\ ctor # "none"
  /\ IF m_tree = NULL
     THEN /\ reported' \in NullTreeOutcomes
          /\ UNCHANGED <<query, output>>
     ELSE /\ query' = [kind |-> "knn", point |-> q, k |-> k]
          /\ output' = k_neighbors(q, k)
          /\ reported' = "none"
  /\ UNCHANGED <<input, ctor, voxel_size, grid, m_tree, calls, twin,
                 viewer_vars>>

\* Range_neighbor_query (neighborhood, radius) and its operator().
RangeNeighborQuery(radius, q) ==
  /\ ctor # "none"
  /\ IF m_tree = NULL
     THEN /\ reported' \in NullTreeOutcomes
          /\ UNCHANGED <<query, output>>
     ELSE /\ query' = [kind |-> "range", point |-> q, radius |-> radius]
          /\ output' = range_neighbors(q, radius)
          /\ reported' = "none"
  /\ UNCHANGED <<input, ctor, voxel_size, grid, m_tree, calls, twin,
                 viewer_vars>>

Next ==
  \/ ConstructDefault
  \/ Construct
  \/ \E size \in VoxelSizes : ConstructVoxel(size)
  \/ \E k \in KValues, q \in QueryPoints : KNeighborQuery(k, q)
  \/ \E radius \in Radii, q \in QueryPoints : RangeNeighborQuery(radius, q)

Spec == Init /\ [][Next]_vars

\* The simplifying constructor alone: what it builds of an input range.
NextVoxel == \E size \in VoxelSizes : ConstructVoxel(size)

SpecVoxel == Init /\ [][NextVoxel]_vars

(***************************************************************************)
(* Calls of the query functors in flight.  Every caller runs operator() of *)
(* a functor of its own on the one neighborhood and writes to an output    *)
(* iterator of its own.  A step of a call is the construction of its local *)
(* search or sphere, one write to its output iterator, or one visit of an  *)
(* index of the tree; the steps of the callers interleave.  An output      *)
(* iterator may throw at a write, which ends the call.                     *)
(***************************************************************************)
\* The points of the input ranges on which calls are run in flight.
CallPoints == {<<-1, 0, 0>>, <<0, 0, 0>>}
\* The counts k of the k-NN calls in flight: 1, 2 and 2^32 + 1.
CallKValues == {k \in KValues : k.lo <= 2}

\* What the other callers are at when caller c calls its functor.
Others(c) == {calls[o].pc : o \in Callers \ {c}}

\* The search of k_neighbors kept in a member of the neighborhood in place
\* of a local: constructing it replaces the search every k-NN call in flight
\* is iterating.
CallKNeighbors_member_search(c, k, q) ==
  /\ m_tree # NULL
  /\ calls[c].pc = "idle"
  /\ LET search == Knn(Range(m_tree.pts), q, unsigned_int(k), TRUE)
     IN  calls' =
           [o \in Callers |->
              IF o = c
              THEN [pc |-> "running", kind |-> "knn", point |-> q, k |-> k,
                    search |-> search, it |-> 1, output |-> <<>>,
                    others |-> Others(c)]
              ELSE IF calls[o].pc = "running" /\ calls[o].kind = "knn"
                   THEN [calls[o] EXCEPT !.search = search]
                   ELSE calls[o]]
  /\ UNCHANGED <<input, ctor, voxel_size, grid, m_tree, query, output,
                 reported, twin,
                 viewer_vars>>

\* K_neighbor_query::operator() and k_neighbors up to the construction of
\* the local search, Knn search (*m_tree, query, (unsigned int)k, ...).
CallKNeighbors(c, k, q) ==
  /\ m_tree # NULL
  /\ calls[c].pc = "idle"
  /\ calls' =
       [calls EXCEPT ![c] =
          [pc |-> "running", kind |-> "knn", point |-> q, k |-> k,
           search |-> Knn(Range(m_tree.pts), q, unsigned_int(k), TRUE),
           it |-> 1, output |-> <<>>, others |-> Others(c)]]
  /\ UNCHANGED <<input, ctor, voxel_size, grid, m_tree, query, output,
                 reported, twin,
                 viewer_vars>>

\* One turn of the loop of k_neighbors that also takes the emitted index
\* out of the tree.
EmitNeighbor_removing(c) ==
  /\ calls[c].pc = "running"
  /\ calls[c].kind = "knn"
  /\ calls[c].it <= Len(calls[c].search)
  /\ calls' =
       [calls EXCEPT ![c].output = Append(@, calls[c].search[calls[c].it].first),
                     ![c].it = @ + 1]
  /\ m_tree' =
       Tree(SelectSeq(m_tree.pts,
                      LAMBDA i : i # calls[c].search[calls[c].it].first))
  /\ UNCHANGED <<input, ctor, voxel_size, grid, query, output, reported, twin,
                 viewer_vars>>

\* One turn of the loop of k_neighbors: *(output ++) = it->first; ++ it.
EmitNeighbor(c) ==
  /\ calls[c].pc = "running"
  /\ calls[c].kind = "knn"
  /\ calls[c].it <= Len(calls[c].search)
  /\ calls' =
       [calls EXCEPT ![c].output = Append(@, calls[c].search[calls[c].it].first),
                     ![c].it = @ + 1]
  /\ UNCHANGED <<input, ctor, voxel_size, grid, m_tree, query, output,
                 reported, twin,
                 viewer_vars>>

\* Range_neighbor_query::operator() and range_neighbors up to the
\* construction of the local sphere, Sphere fs (query, radius_neighbors, 0).
CallRangeNeighbors(c, radius, q) ==
  /\ m_tree # NULL
  /\ calls[c].pc = "idle"
  /\ calls' =
       [calls EXCEPT ![c] =
          [pc |-> "running", kind |-> "range", point |-> q, radius |-> radius,
           fs |-> Sphere(q, radius, 0), it |-> 1, output |-> <<>>,
           others |-> Others(c)]]
  /\ UNCHANGED <<input, ctor, voxel_size, grid, m_tree, query, output,
                 reported, twin,
                 viewer_vars>>

\* One step of m_tree->search (output, fs): the next index of the tree is
\* visited and written to output when the sphere contains its point.
SearchStep(c) ==
  /\ calls[c].pc = "running"
  /\ calls[c].kind = "range"
  /\ calls[c].it <= Len(m_tree.pts)
  /\ LET i == m_tree.pts[calls[c].it]
     IN  calls' =
           [calls EXCEPT ![c].output =
                           IF sphere_contains(calls[c].fs, get(i))
                           THEN Append(@, i) ELSE @,
                         ![c].it = @ + 1]
  /\ UNCHANGED <<input, ctor, voxel_size, grid, m_tree, query, output,
                 reported, twin,
                 viewer_vars>>

\* Whether the next step of the call of c is a write to its output iterator.
AtWrite(c) ==
  /\ calls[c].pc = "running"
  /\ IF calls[c].kind = "knn"
     THEN calls[c].it <= Len(calls[c].search)
     ELSE /\ calls[c].it <= Len(m_tree.pts)
          /\ sphere_contains(calls[c].fs, get(m_tree.pts[calls[c].it]))

\* The output iterator of c throws at a write: the exception leaves
\* k_neighbors or range_neighbors, destroying the local search or sphere,
\* and what was written before stays written.
SinkAbort(c) ==
  /\ AtWrite(c)
  /\ calls' = [calls EXCEPT ![c].pc = "aborted"]
  /\ UNCHANGED <<input, ctor, voxel_size, grid, m_tree, query, output,
                 reported, twin,
                 viewer_vars>>

\* The loop of k_neighbors has reached search.end(), or the search of
\* range_neighbors has visited the whole tree: operator() returns.
Return(c) ==
  /\ calls[c].pc = "running"
  /\ IF calls[c].kind = "knn"
     THEN calls[c].it > Len(calls[c].search)
     ELSE calls[c].it > Len(m_tree.pts)
  /\ calls' = [calls EXCEPT ![c].pc = "done"]
  /\ UNCHANGED <<input, ctor, voxel_size, grid, m_tree, query, output,
                 reported, twin,
                 viewer_vars>>

\* The caller's input range holds points of CallPoints only.
InitConcurrent ==
  /\ Init
  /\ \A n \in DOMAIN input : input[n] \in CallPoints

NextConcurrent ==
  \/ Construct
  \/ \E size \in VoxelSizes : ConstructVoxel(size)
  \/ \E c \in Callers, k \in CallKValues, q \in QueryPoints :
       CallKNeighbors(c, k, q)
  \/ \E c \in Callers, radius \in Radii, q \in QueryPoints :
       CallRangeNeighbors(c, radius, q)
  \/ \E c \in Callers : EmitNeighbor(c)
  \/ \E c \in Callers : SearchStep(c)
  \/ \E c \in Callers : SinkAbort(c)
  \/ \E c \in Callers : Return(c)

SpecConcurrent == InitConcurrent /\ [][NextConcurrent]_vars

(***************************************************************************)
(* A second neighborhood, constructed by the same constructor from the     *)
(* same input range, point map and voxel size as the first, and asked the  *)
(* same queries.                                                           *)
(***************************************************************************)
\* A sequence from its last element to its first.
Reverse(s) == [n \in 1 .. Len(s) |-> s[Len(s) + 1 - n]]

\* The second construction, with a grid whose iteration order is not that of
\* the first: the representatives come out in the opposite order.
ConstructTwin_unordered ==
  /\ ctor # "none"
  /\ twin.m_tree = NULL
  /\ twin' =
       [twin EXCEPT !.m_tree =
          IF ctor = "full" THEN Tree(counting_range(Len(input)))
          ELSE Tree(Reverse(voxelize_point_set(counting_range(Len(input)),
                                               voxel_size)))]
  /\ UNCHANGED <<input, ctor, voxel_size, grid, m_tree, query, output,
                 reported, calls,
                 viewer_vars>>

\* The constructor that built the first neighborhood, run again on the same
\* arguments for the second.
ConstructTwin ==
  /\ ctor # "none"
  /\ twin.m_tree = NULL
  /\ twin' =
       [twin EXCEPT !.m_tree =
          IF ctor = "full" THEN Tree(counting_range(Len(input)))
          ELSE Tree(voxelize_point_set(counting_range(Len(input)), voxel_size))]
  /\ UNCHANGED <<input, ctor, voxel_size, grid, m_tree, query, output,
                 reported, calls,
                 viewer_vars>>

\* k_neighbor_query (k) (q, output) of the second neighborhood.
TwinKNeighborQuery(k, q) ==
  /\ twin.m_tree # NULL
  /\ LET search == Knn(Range(twin.m_tree.pts), q, unsigned_int(k), TRUE)
     IN  twin' =
           [twin EXCEPT !.query = [kind |-> "knn", point |-> q, k |-> k],
                        !.output = [it \in 1 .. Len(search) |-> search[it].first]]
  /\ UNCHANGED <<input, ctor, voxel_size, grid, m_tree, query, output,
                 reported, calls,
                 viewer_vars>>

\* range_neighbor_query (radius) (q, output) of the second neighborhood.
TwinRangeNeighborQuery(radius, q) ==
  /\ twin.m_tree # NULL
  /\ twin' =
       [twin EXCEPT !.query = [kind |-> "range", point |-> q, radius |-> radius],
                    !.output = tree_search(twin.m_tree, Sphere(q, radius, 0))]
  /\ UNCHANGED <<input, ctor, voxel_size, grid, m_tree, query, output,
                 reported, calls,
                 viewer_vars>>

NextTwin ==
  \/ Construct
  \/ \E size \in VoxelSizes : ConstructVoxel(size)
  \/ ConstructTwin
  \/ \E k \in KValues, q \in QueryPoints : KNeighborQuery(k, q)
  \/ \E radius \in Radii, q \in QueryPoints : RangeNeighborQuery(radius, q)
  \/ \E k \in KValues, q \in QueryPoints : TwinKNeighborQuery(k, q)
  \/ \E radius \in Radii, q \in QueryPoints : TwinRangeNeighborQuery(radius, q)

SpecTwin == InitConcurrent /\ [][NextTwin]_vars

(***************************************************************************)
(* The Viewer: its key and mouse handlers, the distance display and the    *)
(* shader programs.  Of a Viewer's members only those the distance display *)
(* and the program cache read are kept; the camera, the scene and the      *)
(* OpenGL buffers are not.                                                 *)
(***************************************************************************)
\* The variables of the neighborhood, which no Viewer touches.
neighborhood_vars ==
  <<input, ctor, voxel_size, grid, m_tree, query, output, reported, calls, twin>>

\* clearDistancedisplay that resets the flag and leaves the list as it is.
clearDistancedisplay_flag_only(v) ==
  /\ distance_is_displayed' = [distance_is_displayed EXCEPT ![v] = FALSE]
  /\ distance_text' = distance_text

\* Viewer::clearDistancedisplay: the flag is reset, every TextItem is taken
\* off the renderer and deleted, and the list is cleared.
clearDistancedisplay(v) ==
  /\ distance_is_displayed' = [distance_is_displayed EXCEPT ![v] = FALSE]
  /\ distance_text' = [distance_text EXCEPT ![v] = <<>>]

\* The three TextItems showDistance appends for the points A and B: the
\* two labels at the points, and the distance label at their middle (kept
\* as A + B, twice the middle, with the squared distance).
DistanceItems(A, B) ==
  <<[label |-> "A", at |-> A],
    [label |-> "B", at |-> B],
    [label |-> "distance",
     at |-> <<A[1] + B[1], A[2] + B[2], A[3] + B[3]>>,
     squared |-> transformed_distance(A, B)]>>

\* Viewer::showDistance (pixel), hit being what pointUnderPixel finds.
showDistance(v, hit) ==
  IF ~isAset /\ hit.found
  THEN /\ APoint' = [APoint EXCEPT ![v] = hit.point]
       /\ isAset' = TRUE
       /\ clearDistancedisplay(v)
       /\ last_hit' =
            [last_hit EXCEPT ![v] =
               [clicked |-> TRUE, point |-> hit.point, displayed |-> FALSE]]
  ELSE IF hit.found
       THEN /\ isAset' = FALSE
            /\ distance_is_displayed' = [distance_is_displayed EXCEPT ![v] = TRUE]
            /\ distance_text' =
                 [distance_text EXCEPT
                    ![v] = @ \o DistanceItems(APoint[v], hit.point)]
            /\ last_hit' =
                 [last_hit EXCEPT ![v] =
                    [clicked |-> TRUE, point |-> hit.point, displayed |-> TRUE]]
            /\ UNCHANGED APoint
       ELSE UNCHANGED <<isAset, APoint, distance_is_displayed, distance_text,
                        last_hit>>

\* Whether a mouse press is handed to showDistance.
RoutedToShowDistance(v, button, modifiers) ==
  /\ ~(button = "RightButton" /\ modifiers = "ShiftModifier")
  /\ ~(modifiers = "NoModifier" /\ button = "LeftButton" /\ i_is_pressed[v])
  /\ modifiers = "NoModifier"
  /\ button = "LeftButton"
  /\ is_d_pressed[v]

\* Viewer::mousePressEvent.  The context menu, printPrimitiveId and the
\* QGLViewer handler change nothing of the state kept here.
mousePressEvent(v, button, modifiers, hit) ==
  /\ IF RoutedToShowDistance(v, button, modifiers)
     THEN /\ (isAset /\ hit.found) =>
               Len(distance_text[v]) + 3 <= MaxTextItems
          /\ showDistance(v, hit)
     ELSE UNCHANGED <<isAset, APoint, distance_is_displayed, distance_text,
                      last_hit>>
  /\ UNCHANGED <<is_d_pressed, i_is_pressed, shader_programs, returned, created,
                 d_key_down, neighborhood_vars>>

\* Viewer::keyPressEvent for the keys D and I.
keyPressEvent(v, key, modifiers, isAutoRepeat) ==
  /\ IF modifiers = "NoModifier" /\ key = "Key_I"
     THEN /\ i_is_pressed' = [i_is_pressed EXCEPT ![v] = TRUE]
          /\ UNCHANGED <<is_d_pressed, distance_is_displayed, distance_text>>
     ELSE IF modifiers = "NoModifier" /\ key = "Key_D" /\ ~isAutoRepeat
          THEN /\ IF ~is_d_pressed[v] THEN clearDistancedisplay(v)
                  ELSE UNCHANGED <<distance_is_displayed, distance_text>>
               /\ is_d_pressed' = [is_d_pressed EXCEPT ![v] = TRUE]
               /\ UNCHANGED i_is_pressed
          ELSE UNCHANGED <<is_d_pressed, i_is_pressed, distance_is_displayed,
                           distance_text>>
  /\ d_key_down' = IF key = "Key_D" /\ ~isAutoRepeat
                   THEN [d_key_down EXCEPT ![v] = TRUE]
                   ELSE d_key_down
  /\ UNCHANGED <<isAset, APoint, last_hit, shader_programs, returned, created,
                 neighborhood_vars>>

\* Viewer::keyReleaseEvent.
keyReleaseEvent(v, key, modifiers, isAutoRepeat) ==
  /\ IF key = "Key_I"
     THEN /\ i_is_pressed' = [i_is_pressed EXCEPT ![v] = FALSE]
          /\ UNCHANGED is_d_pressed
     ELSE IF modifiers = "NoModifier" /\ key = "Key_D" /\ ~isAutoRepeat
          THEN /\ is_d_pressed' = [is_d_pressed EXCEPT ![v] = FALSE]
               /\ UNCHANGED i_is_pressed
          ELSE UNCHANGED <<is_d_pressed, i_is_pressed>>
  /\ d_key_down' = IF key = "Key_D" /\ ~isAutoRepeat
                   THEN [d_key_down EXCEPT ![v] = FALSE]
                   ELSE d_key_down
  /\ UNCHANGED <<isAset, APoint, distance_is_displayed, distance_text, last_hit,
                 shader_programs, returned, created, neighborhood_vars>>

\* The Viewers are constructed; no neighborhood takes part.
InitViewer ==
  /\ Init
  /\ input = <<>>

NextViewer ==
  \/ \E v \in Viewers, key \in Keys, modifiers \in Modifiers,
        isAutoRepeat \in BOOLEAN :
       keyPressEvent(v, key, modifiers, isAutoRepeat)
  \/ \E v \in Viewers, key \in Keys, modifiers \in Modifiers,
        isAutoRepeat \in BOOLEAN :
       keyReleaseEvent(v, key, modifiers, isAutoRepeat)
  \/ \E v \in Viewers, button \in Buttons, modifiers \in Modifiers,
        hit \in Hits :
       mousePressEvent(v, button, modifiers, hit)

SpecViewer == InitViewer /\ [][NextViewer]_vars

(***************************************************************************)
(* Viewer::getShaderProgram and the programs it keeps per Viewer.          *)
(***************************************************************************)
\* The program object the n-th new QOpenGLShaderProgram (viewer) for a name
\* yields.
Program(v, name, n) == [viewer |-> v, name |-> name, serial |-> n]

\* getShaderProgram that creates the program and returns it without
\* keeping it in shader_programs.
getShaderProgram_unstored(v, name) ==
  /\ name \in ProgramNames => created[v][name] < MaxCreated
  /\ IF name \in ProgramNames
     THEN /\ created' = [created EXCEPT ![v][name] = @ + 1]
          /\ returned' =
               [viewer |-> v, name |-> name, cached |-> FALSE,
                program |-> Program(v, name, created[v][name] + 1)]
          /\ UNCHANGED shader_programs
     ELSE /\ returned' =
               [viewer |-> v, name |-> name, cached |-> FALSE, program |-> NULL]
          /\ UNCHANGED <<shader_programs, created>>
  /\ UNCHANGED <<isAset, is_d_pressed, i_is_pressed, distance_is_displayed,
                 distance_text, APoint, last_hit, d_key_down, neighborhood_vars>>

\* Viewer::getShaderProgram (name): each case of the switch returns the
\* program kept under its name, or creates one, keeps it and returns it;
\* the default case returns 0.
getShaderProgram(v, name) ==
  /\ name \in ProgramNames => created[v][name] < MaxCreated
  /\ IF name \in ProgramNames
     THEN IF shader_programs[v][name] # NULL
          THEN /\ returned' =
                    [viewer |-> v, name |-> name, cached |-> TRUE,
                     program |-> shader_programs[v][name]]
               /\ UNCHANGED <<shader_programs, created>>
          ELSE /\ created' = [created EXCEPT ![v][name] = @ + 1]
               /\ shader_programs' =
                    [shader_programs EXCEPT
                       ![v][name] = Program(v, name, created[v][name] + 1)]
               /\ returned' =
                    [viewer |-> v, name |-> name, cached |-> FALSE,
                     program |-> Program(v, name, created[v][name] + 1)]
     ELSE /\ returned' =
               [viewer |-> v, name |-> name, cached |-> FALSE, program |-> NULL]
          /\ UNCHANGED <<shader_programs, created>>
  /\ UNCHANGED <<isAset, is_d_pressed, i_is_pressed, distance_is_displayed,
                 distance_text, APoint, last_hit, d_key_down, neighborhood_vars>>

NextShaders ==
  \E v \in Viewers, name \in CalledNames : getShaderProgram(v, name)

SpecShaders == InitViewer /\ [][NextShaders]_vars

(***************************************************************************)
(* Properties.  The index set I of a built neighborhood is the set of      *)
(* indices its tree holds; distances are compared by their squares.        *)
(***************************************************************************)
IndexSet == Range(m_tree.pts)

\* The squared Euclidean distance of the point of index i to the point q.
SqDist(i, q) ==
  LET p == input[i + 1]
      s(c) == (p[c] - q[c]) * (p[c] - q[c])
  IN  s(1) + s(2) + s(3)

\* min(k, n) for a count k = hi * 2^32 + lo and an n below 2^32.
SizeMin(k, n) == IF k.hi > 0 \/ k.lo > n THEN n ELSE k.lo

\* k > n for a count k = hi * 2^32 + lo and an n below 2^32.
SizeGreater(k, n) == k.hi > 0 \/ k.lo > n

\* C1: every index a k-NN query emits is at least as near to the query point
\* as every index of the index set it does not emit.
C1_KnnNearest ==
  query.kind = "knn" =>
    \A i \in Range(output), j \in IndexSet \ Range(output) :
      SqDist(i, query.point) <= SqDist(j, query.point)

\* C1 witness: a k-NN query has emitted two indices and left out a strictly
\* farther one.
C1_Witness ==
  /\ query.kind = "knn"
  /\ Len(output) = 2
  /\ \E j \in IndexSet \ Range(output) :
       \A i \in Range(output) : SqDist(i, query.point) < SqDist(j, query.point)

\* C2: a range query emits exactly the indices of the index set whose point
\* is within the radius of the query point, the boundary included; with
\* radius 0, exactly those whose point is the query point.
C2_RangeComplete ==
  query.kind = "range" =>
    /\ Range(output) =
         {i \in IndexSet :
            SqDist(i, query.point) <= query.radius * query.radius}
    /\ query.radius = 0 =>
         Range(output) = {i \in IndexSet : input[i + 1] = query.point}

\* C2 witness: a range query of radius 1 has emitted an index at distance
\* exactly 1 and one at distance 0, and left out a farther index.
C2_Witness ==
  /\ query.kind = "range"
  /\ query.radius = 1
  /\ \E i \in Range(output) : SqDist(i, query.point) = 1
  /\ \E i \in Range(output) : SqDist(i, query.point) = 0
  /\ IndexSet \ Range(output) # {}

\* C3: a k-NN query emits its indices in non-decreasing order of distance to
\* the query point.
C3_KnnOrdered ==
  query.kind = "knn" =>
    \A n \in 1 .. Len(output) - 1 :
      SqDist(output[n], query.point) <= SqDist(output[n + 1], query.point)

\* C3 witness: a k-NN query has emitted three indices at three different
\* distances.
C3_Witness ==
  /\ query.kind = "knn"
  /\ Len(output) = 3
  /\ SqDist(output[1], query.point) < SqDist(output[2], query.point)
  /\ SqDist(output[2], query.point) < SqDist(output[3], query.point)

\* C4: a k-NN query with k >= 1 emits exactly min(k, |I|) indices.
C4_KnnLength ==
  query.kind = "knn" =>
    Len(output) = SizeMin(query.k, Cardinality(IndexSet))

\* C5: of indices equidistant from the query point, a k-NN query emits the
\* lower first, and never emits one while leaving out a lower one.
C5_KnnTieBreak ==
  query.kind = "knn" =>
    /\ \A m, n \in 1 .. Len(output) :
         (m < n /\ SqDist(output[m], query.point) = SqDist(output[n], query.point))
           => output[m] < output[n]
    /\ \A i \in Range(output), j \in IndexSet \ Range(output) :
         SqDist(i, query.point) = SqDist(j, query.point) => i < j

\* C5 witness: the input holds three copies of the query point and a k-NN
\* query with k = 2 has emitted the two lowest of their indices, in order.
C5_Witness ==
  /\ query.kind = "knn"
  /\ query.k = [hi |-> 0, lo |-> 2]
  /\ Cardinality({i \in IndexSet : input[i + 1] = query.point}) = 3
  /\ output = <<0, 1>>

MathFloor(c, size) ==
  LET m == IF c < 0 THEN 0 - c ELSE c
  IN  CHOOSE n \in (0 - m - 1) .. (m + 1) :
        IF size > 0 THEN n * size <= c /\ c < (n + 1) * size
        ELSE n * size >= c /\ c > (n + 1) * size

\* The indices of the input range.
InputIndices == 0 .. Len(input) - 1

\* The voxel key (floor(x/s), floor(y/s), floor(z/s)) of the point of every
\* input index, for the voxel size of the constructor.
VoxelKeys ==
  [i \in InputIndices |->
     <<MathFloor(input[i + 1][1], voxel_size),
       MathFloor(input[i + 1][2], voxel_size),
       MathFloor(input[i + 1][3], voxel_size)>>]

\* C7: after the voxel constructor, no two entries of the index set have
\* points with the same voxel key.
C7_VoxelUnique ==
  ctor = "voxel" =>
    LET key == VoxelKeys
    IN  \A a, b \in 1 .. Len(m_tree.pts) :
          a # b => key[m_tree.pts[a]] # key[m_tree.pts[b]]

\* C7 witness: the voxel constructor has reduced three input points, two of
\* them in one voxel, to two representatives.
C7_Witness ==
  /\ ctor = "voxel"
  /\ Len(input) = 3
  /\ Len(m_tree.pts) = 2
  /\ \E i, j \in InputIndices : i # j /\ VoxelKeys[i] = VoxelKeys[j]

\* The sum of the points of the indices in the set G, coordinate by
\* coordinate.
RECURSIVE PointSum(_)
PointSum(G) ==
  IF G = {} THEN <<0, 0, 0>>
  ELSE LET i == CHOOSE j \in G : TRUE
           rest == PointSum(G \ {i})
       IN  <<input[i + 1][1] + rest[1], input[i + 1][2] + rest[2],
             input[i + 1][3] + rest[3]>>

\* n^2 times the squared distance of the point of index i to the centroid
\* sum / n of a group of n points.
CentroidSqDist(i, sum, n) ==
  LET p == input[i + 1]
      d == <<n * p[1] - sum[1], n * p[2] - sum[2], n * p[3] - sum[3]>>
  IN  d[1] * d[1] + d[2] * d[2] + d[3] * d[3]

\* C8: every occupied voxel has a representative in the index set, and a
\* representative is a member of its voxel's group that no member of the
\* group beats in squared distance to the group's centroid.
C8_VoxelClosest ==
  ctor = "voxel" =>
    LET key == VoxelKeys
        I == IndexSet
    IN  \A i \in InputIndices :
          LET G == {j \in InputIndices : key[j] = key[i]}
              sum == PointSum(G)
              n == Cardinality(G)
          IN  /\ I \cap G # {}
              /\ \A r \in I \cap G, j \in G :
                   CentroidSqDist(r, sum, n) <= CentroidSqDist(j, sum, n)

\* C8 witness: a voxel holds three input points, and its representative is
\* not the first of them and is strictly closer to the centroid than another.
C8_Witness ==
  /\ ctor = "voxel"
  /\ \E r \in IndexSet :
       LET G == {j \in InputIndices : VoxelKeys[j] = VoxelKeys[r]}
       IN  /\ Cardinality(G) = 3
           /\ \E j \in G : j < r
           /\ \E j \in G :
                CentroidSqDist(r, PointSum(G), 3) < CentroidSqDist(j, PointSum(G), 3)

OutOfKeyType(n) == n > KeyTypeMax \/ n < 0 - KeyTypeMax - 1

\* Whether some coordinate of some input point, divided by the voxel size,
\* does not fit the integer key type.
KeyOverflows ==
  \E i \in InputIndices, c \in 1 .. 3 : OutOfKeyType(VoxelKeys[i][c])

\* The entry of the grid (its key) each input index was pushed to.
GridEntryOf ==
  [i \in InputIndices |->
     CHOOSE ref \in DOMAIN grid : \E n \in DOMAIN grid[ref] : grid[ref][n] = i]

C11_IndexValid ==
  query.kind # "none" =>
    \A n \in 1 .. Len(output) :
      /\ output[n] >= 0
      /\ output[n] < Len(input)
      /\ output[n] \in IndexSet

\* C11 witness: on a neighborhood simplified to two of three input indices,
\* a range query has emitted an index and has not emitted an input index
\* within its radius that is no representative.
C11_Witness ==
  /\ ctor = "voxel"
  /\ query.kind = "range"
  /\ Len(input) = 3
  /\ Cardinality(IndexSet) = 2
  /\ output # <<>>
  /\ \E j \in InputIndices \ IndexSet :
       /\ SqDist(j, query.point) <= query.radius * query.radius
       /\ j \notin Range(output)

\* The integer d with d * d = n, or -1 when n is not a square.
IntegerRoot(n) ==
  IF \E d \in 0 .. n : d * d = n THEN CHOOSE d \in 0 .. n : d * d = n ELSE 0 - 1

\* The largest squared distance to q of an index in the non-empty set R.
LargestSqDist(R, q) ==
  LET far == CHOOSE i \in R : \A j \in R : SqDist(j, q) <= SqDist(i, q)
  IN  SqDist(far, q)

\* C12: with R the indices a k-NN query (q, k) emitted and d the largest
\* distance to q of an index of R (where d is an integer), every index of R
\* is emitted by the range query (q, d), which emits at least min(k, |I|)
\* indices.
C12_RangeKnnConsistent ==
  (query.kind = "knn" /\ output # <<>>) =>
    LET d == IntegerRoot(LargestSqDist(Range(output), query.point))
    IN  d >= 0 =>
          LET in_range == range_neighbors(query.point, d)
          IN  /\ Range(output) \subseteq Range(in_range)
              /\ Len(in_range) >= SizeMin(query.k, Cardinality(IndexSet))

\* What the call of a caller emits when it runs alone on the neighborhood.
EmittedAlone(call) ==
  IF call.kind = "knn" THEN k_neighbors(call.point, call.k)
  ELSE range_neighbors(call.point, call.radius)

\* C13: whatever the interleaving of the steps of the callers, a call that
\* has returned has written to its output iterator exactly the sequence the
\* same query emits when it runs alone.
C13_ConcurrentAsAlone ==
  \A c \in Callers :
    calls[c].pc = "done" => calls[c].output = EmittedAlone(calls[c])

\* C13 witness: a k-NN call and a range call have both returned, each with
\* two indices emitted, and one of them was called while the other was in
\* flight.
C13_Witness ==
  \E c, o \in Callers :
    /\ calls[c].pc = "done"
    /\ calls[o].pc = "done"
    /\ calls[c].kind = "knn"
    /\ calls[o].kind = "range"
    /\ Len(calls[c].output) = 2
    /\ Len(calls[o].output) = 2
    /\ (calls[c].others = {"running"} \/ calls[o].others = {"running"})

\* The indices the constructor that built the neighborhood puts in the tree,
\* computed afresh from the input range.
BuiltIndices ==
  IF ctor = "full" THEN counting_range(Len(input))
  ELSE voxelize_point_set(counting_range(Len(input)), voxel_size)

\* What the query of a call emits on a neighborhood just constructed, on
\* which no query has run.
EmittedFresh(call) ==
  LET I == BuiltIndices
  IN  IF call.kind = "knn"
      THEN LET search == Knn(Range(I), call.point, call.k.lo, TRUE)
           IN  [it \in 1 .. Len(search) |-> search[it].first]
      ELSE SelectSeq(I, LAMBDA i :
             SqDist(i, call.point) <= call.radius * call.radius)

\* C14: once the neighborhood is constructed, no step of a query, the throw
\* of an output iterator included, changes the tree, the index set or the
\* input the distance object reads; and a call that has returned, whatever
\* calls ran or were aborted before it, has emitted what its query emits on
\* a neighborhood on which no query has run.
C14_QueriesReadOnly ==
  /\ [][ctor # "none" => UNCHANGED <<input, ctor, voxel_size, grid, m_tree>>]_vars
  /\ [](\A c \in Callers :
          calls[c].pc = "done" => calls[c].output = EmittedFresh(calls[c]))

\* C14 witness: the output iterator of one caller threw after an index was
\* written, and a call made after that has returned with two indices
\* emitted, on an unchanged tree.
C14_Witness ==
  \E c, o \in Callers :
    /\ calls[o].pc = "aborted"
    /\ Len(calls[o].output) = 1
    /\ calls[c].pc = "done"
    /\ calls[c].others = {"aborted"}
    /\ Len(calls[c].output) = 2
    /\ m_tree.pts = BuiltIndices

C16_EmptyInputFails ==
  (ctor \in {"full", "voxel"} /\ input = <<>>) => reported # "none"

\* C17: the voxel constructor leaves exactly one representative for every
\* occupied voxel: the simplified index set has as many entries as the input
\* points have distinct voxel keys, every entry is an index of the input, and
\* every occupied voxel holds the point of exactly one entry.
C17_OnePerVoxel ==
  ctor = "voxel" =>
    LET key == VoxelKeys
        pts == m_tree.pts
    IN  /\ Len(pts) = Cardinality({key[i] : i \in InputIndices})
        /\ \A n \in 1 .. Len(pts) : pts[n] \in InputIndices
        /\ \A i \in InputIndices :
             Cardinality({n \in 1 .. Len(pts) : key[pts[n]] = key[i]}) = 1

\* C17 witness: three input points occupy two voxels, and the voxel that
\* does not hold the point of index 0 has a representative of its own.
C17_Witness ==
  /\ ctor = "voxel"
  /\ Len(input) = 3
  /\ Cardinality({VoxelKeys[i] : i \in InputIndices}) = 2
  /\ Len(m_tree.pts) = 2
  /\ \E r \in IndexSet : r # 0 /\ VoxelKeys[r] # VoxelKeys[0]

\* C18: the representative of a voxel is the smallest of the indices of its
\* group that are at the minimum squared distance from the group's centroid.
C18_VoxelTieBreak ==
  ctor = "voxel" =>
    LET key == VoxelKeys
    IN  \A r \in IndexSet :
          LET G == {j \in InputIndices : key[j] = key[r]}
              sum == PointSum(G)
              n == Cardinality(G)
              nearest == {j \in G : \A m \in G :
                            CentroidSqDist(j, sum, n) <= CentroidSqDist(m, sum, n)}
          IN  r \in nearest /\ \A j \in nearest : r <= j

\* C18 witness: a voxel holds input points at two different places, both at
\* the minimum distance from the centroid, beside a third point in another
\* voxel, and the lower of the two indices is the representative.
C18_Witness ==
  /\ ctor = "voxel"
  /\ Len(input) = 3
  /\ \E r \in IndexSet :
       LET G == {j \in InputIndices : VoxelKeys[j] = VoxelKeys[r]}
           sum == PointSum(G)
       IN  /\ Cardinality(G) = 2
           /\ \E j \in G :
                /\ j > r
                /\ input[j + 1] # input[r + 1]
                /\ CentroidSqDist(j, sum, 2) = CentroidSqDist(r, sum, 2)

\* C19: the voxel constructor puts two input indices in the same group
\* exactly when floor(x/s), floor(y/s) and floor(z/s) of their points agree,
\* the floor being toward minus infinity; so, for s > 0, a point with a
\* coordinate in (-s, 0) and a point with that coordinate in [0, s) are in
\* different groups.
C19_FloorTowardMinusInfinity ==
  ctor = "voxel" =>
    LET key == VoxelKeys
        entry == GridEntryOf
        s == voxel_size
    IN  /\ \A i, j \in InputIndices : (entry[i] = entry[j]) = (key[i] = key[j])
        /\ s > 0 =>
             \A i, j \in InputIndices, c \in 1 .. 3 :
               ( /\ 0 - s < input[i + 1][c] /\ input[i + 1][c] < 0
                 /\ 0 <= input[j + 1][c] /\ input[j + 1][c] < s )
                 => entry[i] # entry[j]

\* C19 witness: with voxel size 2, the points at x = -2 and x = -1 are in
\* one group and the point at x = 0 is in another.
C19_Witness ==
  /\ ctor = "voxel"
  /\ voxel_size = 2
  /\ \E i, j, m \in InputIndices :
       /\ input[i + 1] = <<-2, 0, 0>>
       /\ input[j + 1] = <<-1, 0, 0>>
       /\ input[m + 1] = <<0, 0, 0>>
       /\ GridEntryOf[i] = GridEntryOf[j]
       /\ GridEntryOf[j] # GridEntryOf[m]

\* C20: the two-argument constructor builds the tree over the indices
\* 0, 1, ..., N-1 of the input, each exactly once; so a k-NN query that asks
\* for at least N neighbours (and fewer than 2^32) emits every input index.
C20_FullCloud ==
  ctor = "full" =>
    /\ Len(m_tree.pts) = Len(input)
    /\ \A i \in InputIndices :
         Cardinality({n \in 1 .. Len(m_tree.pts) : m_tree.pts[n] = i}) = 1
    /\ (query.kind = "knn" /\ query.k.hi = 0 /\ query.k.lo >= Len(input)) =>
         Range(output) = InputIndices

\* C20 witness: a neighborhood built by the two-argument constructor over
\* three points has answered a k-NN query for four neighbours with all three
\* indices.
C20_Witness ==
  /\ ctor = "full"
  /\ Len(input) = 3
  /\ m_tree.pts = <<0, 1, 2>>
  /\ query.kind = "knn"
  /\ query.k = [hi |-> 0, lo |-> 4]
  /\ Range(output) = {0, 1, 2}

\* C21: no index occurs twice in what one k-NN query or one range query
\* emits, also when the input holds the same point more than once.
C21_NoDuplicates ==
  query.kind # "none" =>
    \A m, n \in 1 .. Len(output) : m # n => output[m] # output[n]

\* C21 witness: the input holds one point three times, and a k-NN query has
\* emitted the three indices of it.
C21_Witness ==
  /\ query.kind = "knn"
  /\ Len(input) = 3
  /\ input[1] = input[2]
  /\ input[2] = input[3]
  /\ Len(output) = 3

\* C22: on a neighborhood over at least one point, the number of neighbours
\* k_neighbors requests from the search, (unsigned int)k, is the k the
\* K_neighbor_query was created with.
C22_KNotNarrowed ==
  (query.kind = "knn" /\ input # <<>>) =>
    (query.k.hi = 0 /\ unsigned_int(query.k) = query.k.lo)

\* C23: no query run through a functor finds m_tree NULL: the assertion
\* CGAL_assertion (m_tree != NULL) never fails and no NULL m_tree is
\* dereferenced.
C23_TreeBuiltWhenQueried ==
  reported \notin NullTreeOutcomes

\* C24: whenever a click makes a Viewer display a distance (its
\* distance_text grows), an earlier click found a point in that same Viewer,
\* the most recent such click displayed no distance, and the label A of the
\* new display is at the point of that click; and a click under which no
\* point is found changes nothing.
C24_PairsSameViewer ==
  [][ /\ \A v \in Viewers :
          Len(distance_text'[v]) > Len(distance_text[v]) =>
            /\ last_hit[v].clicked
            /\ ~last_hit[v].displayed
            /\ distance_text'[v][Len(distance_text'[v]) - 2].label = "A"
            /\ distance_text'[v][Len(distance_text'[v]) - 2].at = last_hit[v].point
      /\ \A v \in Viewers, button \in Buttons, modifiers \in Modifiers :
          mousePressEvent(v, button, modifiers,
                          [found |-> FALSE, point |-> VecZero])
            => UNCHANGED vars ]_vars

\* C25: an unmodified press of D that is not an auto-repeat, made while D is
\* not registered as pressed in the Viewer, leaves distance_is_displayed
\* false and distance_text empty in that Viewer; an auto-repeat press of D
\* changes nothing, so a distance displayed while D is held stays displayed.
C25_DPressClears ==
  [][\A v \in Viewers :
       /\ (keyPressEvent(v, "Key_D", "NoModifier", FALSE) /\ ~is_d_pressed[v])
            => (~distance_is_displayed'[v] /\ distance_text'[v] = <<>>)
       /\ \A modifiers \in Modifiers :
            keyPressEvent(v, "Key_D", modifiers, TRUE) => UNCHANGED vars]_vars

\* D is pressed again in a Viewer whose last click displayed a distance, and
\* the display is gone.
C25_Witness ==
  \E v \in Viewers :
    /\ is_d_pressed[v]
    /\ last_hit[v].clicked
    /\ last_hit[v].displayed
    /\ ~distance_is_displayed[v]
    /\ distance_text[v] = <<>>

\* C26: in every reachable state each Viewer has distance_is_displayed true
\* exactly when its distance_text holds three items (label A, label B and
\* the distance label), and an empty distance_text otherwise; the list never
\* holds the items of more than one measurement.
C26_DisplayInvariant ==
  \A v \in Viewers :
    /\ distance_is_displayed[v] <=>
         /\ Len(distance_text[v]) = 3
         /\ distance_text[v][1].label = "A"
         /\ distance_text[v][2].label = "B"
         /\ distance_text[v][3].label = "distance"
    /\ ~distance_is_displayed[v] => distance_text[v] = <<>>

\* C27: once a key-release event of D that is no auto-repeat has been
\* delivered to a Viewer, whatever the modifiers held, is_d_pressed is false
\* in that Viewer until D is pressed again, so that no unmodified left click
\* made in between is handed to showDistance.
C27_DReleaseTracked ==
  \A v \in Viewers :
    ~d_key_down[v] =>
      /\ ~is_d_pressed[v]
      /\ ~RoutedToShowDistance(v, "LeftButton", "NoModifier")

\* C28: over any sequence of getShaderProgram calls, at most one program is
\* created per Viewer and valid name; a call with a valid name returns the
\* program created by the first call with that name, which is the one kept
\* in shader_programs; a call with an unknown name returns null and leaves
\* shader_programs as it was.
C28_CacheState ==
  /\ \A v \in Viewers, name \in ProgramNames :
       /\ created[v][name] <= 1
       /\ shader_programs[v][name] =
            IF created[v][name] = 0 THEN NULL ELSE Program(v, name, 1)
  /\ returned # NoReturn =>
       /\ returned.program =
            IF returned.name \in ProgramNames
            THEN Program(returned.viewer, returned.name, 1)
            ELSE NULL
       /\ returned.name \in ProgramNames =>
            returned.program = shader_programs[returned.viewer][returned.name]

C28_ShaderCache ==
  /\ []C28_CacheState
  /\ [][\A v \in Viewers, name \in CalledNames \ ProgramNames :
          getShaderProgram(v, name) =>
            /\ returned'.program = NULL
            /\ UNCHANGED <<shader_programs, created>>]_vars

\* A later call for a name returned the program kept since the first call
\* with that name, while a program is kept under another name too.
C28_Witness ==
  /\ returned # NoReturn
  /\ returned.name \in ProgramNames
  /\ returned.cached
  /\ returned.program = Program(returned.viewer, returned.name, 1)
  /\ \E v \in Viewers, name \in ProgramNames \ {returned.name} :
       shader_programs[v][name] # NULL

====
